---- MODULE Spec2Model ----
(***************************************************************************)
(* DomiRank centrality (networkx/algorithms/centrality/domirank.py).       *)
(*                                                                         *)
(* The model follows one call of domirank(G, analytical, sigma, dt,        *)
(* epsilon, max_iter, check_step) through its three functions:             *)
(*   domirank                   the entry point (checks, normalisation,    *)
(*                              the final iteration loop or the solve),    *)
(*   _find_smallest_eigenvalue  the biased bisection,                      *)
(*   _domirank                  the iteration helper the bisection calls.  *)
(*                                                                         *)
(* numpy's binary floating point is modelled as binary floating point with *)
(* a significand of Precision bits (round to nearest, ties to even, with   *)
(* inf and nan); numpy's float32 has 24 bits and its float64 53.  Signed   *)
(* zeros and exponent overflow are not modelled.  Every G is a Graph or a  *)
(* DiGraph (the NetworkXError of line 147 is not modelled), and the local  *)
(* initialChange, which is written and never read, is left out.            *)
(***************************************************************************)
EXTENDS Integers, Sequences, FiniteSets, TLC

VARIABLES
  arg,      \* the call's arguments: G, analytical, sigma, dt, epsilon, max_iter, check_step
  pc,       \* where the call is
  sigma,    \* domirank's local sigma (the argument, then the normalised value)
  fse,      \* the frame of _find_smallest_eigenvalue: x, minVal, maxVal, i
  helper,   \* the frame of _domirank
  loop,     \* the locals of domirank's own iteration loop (lines 174-204)
  ret,      \* what domirank returned
  err,      \* the exception that ended the call
  warned    \* the warnings issued

vars == <<arg, pc, sigma, fse, helper, loop, ret, err, warned>>

\* Width of the significand of the modelled floating-point numbers.
Precision == 12

----------------------------------------------------------------------------
(* Floating-point numbers: [k, m, e] is m * 2^e when k = "num" (m odd, or  *)
(* m = 0 and e = 0), m * infinity when k = "inf", not-a-number otherwise.  *)

AbsInt(n) == IF n < 0 THEN -n ELSE n

SignInt(n) == IF n < 0 THEN -1 ELSE IF n = 0 THEN 0 ELSE 1

RECURSIVE BitLen(_)
BitLen(n) == IF n = 0 THEN 0 ELSE 1 + BitLen(n \div 2)

RECURSIVE Canon(_, _)
Canon(m, e) ==
  IF m = 0 THEN [k |-> "num", m |-> 0, e |-> 0]
  ELSE IF m % 2 = 0 THEN Canon(m \div 2, e + 1)
  ELSE [k |-> "num", m |-> m, e |-> e]

\* m * 2^e rounded to Precision significant bits, ties to even.
Round(m, e) ==
  LET a == AbsInt(m)
      bl == BitLen(a)
  IN  IF bl <= Precision THEN Canon(m, e)
      ELSE LET sh == bl - Precision
               q == a \div (2 ^ sh)
               r == a % (2 ^ sh)
               half == 2 ^ (sh - 1)
               up == r > half \/ (r = half /\ q % 2 = 1)
               q2 == IF up THEN q + 1 ELSE q
           IN  Canon(SignInt(m) * q2, e + sh)

FInt(n) == Round(n, 0)

FZero == FInt(0)

FOne == FInt(1)

FInf(s) == [k |-> "inf", m |-> s, e |-> 0]

FNaN == [k |-> "nan", m |-> 0, e |-> 0]

IsNum(a) == a.k = "num"

FNeg(a) == [a EXCEPT !.m = -a.m]

FAbs(a) == [a EXCEPT !.m = AbsInt(a.m)]

FAdd(a, b) ==
  IF a.k = "nan" \/ b.k = "nan" THEN FNaN
  ELSE IF a.k = "inf" /\ b.k = "inf" THEN (IF a.m = b.m THEN a ELSE FNaN)
  ELSE IF a.k = "inf" THEN a
  ELSE IF b.k = "inf" THEN b
  ELSE IF a.m = 0 THEN b
  ELSE IF b.m = 0 THEN a
  ELSE LET hi == IF a.e >= b.e THEN a ELSE b
           lo == IF a.e >= b.e THEN b ELSE a
           d == hi.e - lo.e
       IN  IF BitLen(AbsInt(hi.m)) + d > 2 * Precision + 2
           THEN hi    \* lo is below a quarter of hi's last place
           ELSE Round(hi.m * (2 ^ d) + lo.m, lo.e)

FSub(a, b) == FAdd(a, FNeg(b))

FMul(a, b) ==
  IF a.k = "nan" \/ b.k = "nan" THEN FNaN
  ELSE IF a.k = "inf" \/ b.k = "inf"
       THEN (IF a.m = 0 \/ b.m = 0 THEN FNaN
             ELSE FInf(SignInt(a.m) * SignInt(b.m)))
  ELSE Round(a.m * b.m, a.e + b.e)

\* numpy scalars divide by zero to inf (0/0 to nan) with a RuntimeWarning.
FDiv(a, b) ==
  IF a.k = "nan" \/ b.k = "nan" THEN FNaN
  ELSE IF a.k = "inf"
       THEN (IF b.k = "inf" THEN FNaN
             ELSE FInf(a.m * (IF b.m < 0 THEN -1 ELSE 1)))
  ELSE IF b.k = "inf" THEN FZero
  ELSE IF b.m = 0 THEN (IF a.m = 0 THEN FNaN ELSE FInf(SignInt(a.m)))
  ELSE IF a.m = 0 THEN FZero
  ELSE LET sh == Precision + 2 + BitLen(AbsInt(b.m)) - BitLen(AbsInt(a.m))
           num == AbsInt(a.m) * (2 ^ sh)
           q == num \div AbsInt(b.m)
           sticky == IF num % AbsInt(b.m) = 0 THEN 0 ELSE 1
       IN  Round(SignInt(a.m) * SignInt(b.m) * (2 * q + sticky),
                 a.e - b.e - sh - 1)

\* a < b; every comparison with nan is false.
FLess(a, b) ==
  IF a.k = "nan" \/ b.k = "nan" THEN FALSE
  ELSE IF a = b THEN FALSE
  ELSE IF a.k = "inf" THEN a.m < 0
  ELSE IF b.k = "inf" THEN b.m > 0
  ELSE FSub(a, b).m < 0

FGreater(a, b) == FLess(b, a)

\* The number n / d.
Rat(n, d) == FDiv(FInt(n), FInt(d))

----------------------------------------------------------------------------
(* Graphs as to_scipy_sparse_array gives them: n rows, and a weight for    *)
(* every stored entry <<row, column>>.                                     *)

EmptyGraph == [n |-> 0, w |-> [p \in {} |-> FZero]]

\* One node, no edge: the maximum row sum is 0.
K1 == [n |-> 1, w |-> [p \in {} |-> FZero]]

K2 == [n |-> 2, w |-> [p \in {<<1, 2>>, <<2, 1>>} |-> FOne]]

\* One edge of weight 1/2: the maximum row sum is below 1.
K2half == [n |-> 2, w |-> [p \in {<<1, 2>>, <<2, 1>>} |-> Rat(1, 2)]]

\* The cycle of four nodes.
C4 == [n |-> 4,
       w |-> [p \in {<<1, 2>>, <<1, 4>>, <<2, 1>>, <<2, 3>>,
                     <<3, 2>>, <<3, 4>>, <<4, 1>>, <<4, 3>>} |-> FOne]]

\* The path of three nodes: its rows do not all have the same sum.
P3 == [n |-> 3,
       w |-> [p \in {<<1, 2>>, <<2, 1>>, <<2, 3>>, <<3, 2>>} |-> FOne]]

\* sum_u A[v, u] * y[u] over the stored entries of row v, in column order.
RECURSIVE RowDot(_, _, _, _, _)
RowDot(A, y, v, u, acc) ==
  IF u > Len(y) THEN acc
  ELSE RowDot(A, y, v, u + 1,
              IF <<v, u>> \in DOMAIN A THEN FAdd(acc, FMul(A[<<v, u>>], y[u]))
              ELSE acc)

MatVec(A, y) == [v \in 1..Len(y) |-> RowDot(A, y, v, 1, FZero)]

RECURSIVE VecSum(_, _, _)
VecSum(y, u, acc) ==
  IF u > Len(y) THEN acc ELSE VecSum(y, u + 1, FAdd(acc, y[u]))

\* numpy's max: nan if any entry is nan.
RECURSIVE VecMax(_, _, _)
VecMax(y, u, acc) ==
  IF u > Len(y) THEN acc
  ELSE VecMax(y, u + 1,
              IF acc.k = "nan" \/ y[u].k = "nan" THEN FNaN
              ELSE IF FLess(acc, y[u]) THEN y[u] ELSE acc)

\* G.sum(axis=-1).max()
RowSumMax(G) ==
  LET sums == MatVec(G.w, [v \in 1..G.n |-> FOne])
  IN  VecMax(sums, 2, sums[1])

\* sigma * G.astype(np.float32): only the stored entries are scaled.
Scaled(s, G) == [p \in DOMAIN G.w |-> FMul(s, G.w[p])]

\* seq[idx] as Python reads it: a negative index counts from the end.
PyIndex(seq, idx) == IF idx < 0 THEN seq[Len(seq) + idx + 1] ELSE seq[idx + 1]

----------------------------------------------------------------------------
(* The iteration.  A frame holds the locals of one run of the loop:        *)
(* sigma, pGAdj, Psi, maxVals, dt, j, boundary, tempVal; i counts the loop bodies *)
(* run so far (the body running next has index i), and st tells how the    *)
(* last body ended: "run" (fell through to the next index), "break",       *)
(* "False" (returned False) or "IndexError".                               *)

NoFrame == [st |-> "none"]

\* _domirank, lines 286-291: the locals before the loop.
HelperEnter(G, s, dt, epsilon, max_iter, check_step) ==
  [sigma |-> s,
   pGAdj |-> Scaled(s, G),
   Psi |-> [v \in 1..G.n |-> FDiv(FOne, FInt(G.n))],
   maxVals |-> [n \in 1..(max_iter \div check_step) |-> FZero],
   dt |-> dt,
   j |-> 0,
   boundary |-> FMul(FMul(epsilon, FInt(G.n)), dt),
   i |-> 0,
   tempVal |-> << >>,
   st |-> "run"]

\* HelperBody without the convergence test of lines 296-297.
HelperBody_NoConvergenceTest(f, check_step) ==
  LET ones == [v \in 1..Len(f.Psi) |-> FSub(FOne, f.Psi[v])]
      prod == MatVec(f.pGAdj, ones)
      tempVal == [v \in 1..Len(f.Psi) |-> FMul(FSub(prod[v], f.Psi[v]), f.dt)]
      Psi == [v \in 1..Len(f.Psi) |-> FAdd(f.Psi[v], tempVal[v])]
      g == [f EXCEPT !.tempVal = tempVal, !.Psi = Psi, !.i = f.i + 1]
      written == [f.maxVals EXCEPT ![f.j + 1] = VecMax(tempVal, 2, tempVal[1])]
  IN  IF f.i % check_step # 0 THEN g
      ELSE IF f.j >= Len(f.maxVals) THEN [g EXCEPT !.st = "IndexError"]
      ELSE IF /\ f.j > 0
              /\ FGreater(PyIndex(written, f.j), PyIndex(written, f.j - 1))
              /\ FGreater(PyIndex(written, f.j - 1), PyIndex(written, f.j - 2))
           THEN [g EXCEPT !.maxVals = written, !.st = "False"]
      ELSE [g EXCEPT !.maxVals = written, !.j = f.j + 1]

\* _domirank, lines 293-304: one body of the loop, for index f.i.
HelperBody(f, check_step) ==
  LET ones == [v \in 1..Len(f.Psi) |-> FSub(FOne, f.Psi[v])]
      prod == MatVec(f.pGAdj, ones)
      tempVal == [v \in 1..Len(f.Psi) |-> FMul(FSub(prod[v], f.Psi[v]), f.dt)]
      Psi == [v \in 1..Len(f.Psi) |-> FAdd(f.Psi[v], tempVal[v])]
      g == [f EXCEPT !.tempVal = tempVal, !.Psi = Psi, !.i = f.i + 1]
      absSum == VecSum([v \in 1..Len(tempVal) |-> FAbs(tempVal[v])], 1, FZero)
      written == [f.maxVals EXCEPT ![f.j + 1] = VecMax(tempVal, 2, tempVal[1])]
  IN  IF f.i % check_step # 0 THEN g
      ELSE IF FLess(absSum, f.boundary) THEN [g EXCEPT !.st = "break"]
      ELSE IF f.j >= Len(f.maxVals) THEN [g EXCEPT !.st = "IndexError"]
      ELSE IF /\ f.j > 0
              /\ FGreater(PyIndex(written, f.j), PyIndex(written, f.j - 1))
              /\ FGreater(PyIndex(written, f.j - 1), PyIndex(written, f.j - 2))
           THEN [g EXCEPT !.maxVals = written, !.st = "False"]
      ELSE [g EXCEPT !.maxVals = written, !.j = f.j + 1]

\* domirank, lines 174-184: the locals before the final loop.
LoopEnter(G, s, dt, epsilon, max_iter, check_step) ==
  [sigma |-> s,
   pGAdj |-> Scaled(s, G),
   Psi |-> [v \in 1..G.n |-> FDiv(FOne, FInt(G.n))],
   maxVals |-> [n \in 1..(max_iter \div check_step) |-> FZero],
   dt |-> dt,
   j |-> 0,
   boundary |-> FMul(FMul(epsilon, FInt(G.n)), dt),
   i |-> 0,
   tempVal |-> << >>,
   st |-> "run"]

\* LoopBody with the sample recorded before the convergence test.
LoopBody_SampleBeforeTest(f, check_step) ==
  LET ones == [v \in 1..Len(f.Psi) |-> FSub(FOne, f.Psi[v])]
      prod == MatVec(f.pGAdj, ones)
      tempVal == [v \in 1..Len(f.Psi) |-> FMul(FSub(prod[v], f.Psi[v]), f.dt)]
      Psi == [v \in 1..Len(f.Psi) |-> FAdd(f.Psi[v], tempVal[v])]
      g == [f EXCEPT !.tempVal = tempVal, !.Psi = Psi, !.i = f.i + 1]
      absSum == VecSum([v \in 1..Len(tempVal) |-> FAbs(tempVal[v])], 1, FZero)
      written == [f.maxVals EXCEPT ![f.j + 1] = VecMax(tempVal, 2, tempVal[1])]
  IN  IF f.i % check_step # 0 THEN g
      ELSE IF f.j >= Len(f.maxVals) THEN [g EXCEPT !.st = "IndexError"]
      ELSE IF FLess(absSum, f.boundary)
           THEN [g EXCEPT !.maxVals = written, !.st = "break"]
      ELSE IF /\ f.j > 0
              /\ FGreater(PyIndex(written, f.j), PyIndex(written, f.j - 1))
              /\ FGreater(PyIndex(written, f.j - 1), PyIndex(written, f.j - 2))
           THEN [g EXCEPT !.maxVals = written, !.st = "False"]
      ELSE [g EXCEPT !.maxVals = written, !.j = f.j + 1]

\* domirank, lines 187-202: one body of the final loop, for index f.i.
LoopBody(f, check_step) ==
  LET ones == [v \in 1..Len(f.Psi) |-> FSub(FOne, f.Psi[v])]
      prod == MatVec(f.pGAdj, ones)
      tempVal == [v \in 1..Len(f.Psi) |-> FMul(FSub(prod[v], f.Psi[v]), f.dt)]
      Psi == [v \in 1..Len(f.Psi) |-> FAdd(f.Psi[v], tempVal[v])]
      g == [f EXCEPT !.tempVal = tempVal, !.Psi = Psi, !.i = f.i + 1]
      absSum == VecSum([v \in 1..Len(tempVal) |-> FAbs(tempVal[v])], 1, FZero)
      written == [f.maxVals EXCEPT ![f.j + 1] = VecMax(tempVal, 2, tempVal[1])]
  IN  IF f.i % check_step # 0 THEN g
      ELSE IF FLess(absSum, f.boundary) THEN [g EXCEPT !.st = "break"]
      ELSE IF f.j >= Len(f.maxVals) THEN [g EXCEPT !.st = "IndexError"]
      ELSE IF /\ f.j > 0
              /\ FGreater(PyIndex(written, f.j), PyIndex(written, f.j - 1))
              /\ FGreater(PyIndex(written, f.j - 1), PyIndex(written, f.j - 2))
           THEN [g EXCEPT !.maxVals = written, !.st = "False"]
      ELSE [g EXCEPT !.maxVals = written, !.j = f.j + 1]

\* The loop of frame f is over: it broke out, returned, raised, or ran out of indices.
Running(f, max_iter) == f.st = "run" /\ f.i < max_iter

\* The loop ended without returning False or raising: the function goes on to
\* its last line, which returns True.
EndedTrue(f, max_iter) == f.st = "break" \/ (f.st = "run" /\ f.i >= max_iter)

----------------------------------------------------------------------------
(* The arguments a call is made with.                                      *)

Graphs == {EmptyGraph, K1, K2, K2half, C4, P3}

Sigmas == {Rat(-1, 2), FZero, FOne, Rat(3, 2)}

Dts == {Rat(1, 2), FOne, Rat(3, 2)}

Epsilons == {FInt(-1), FZero, Rat(1, 4096)}

\* <<max_iter, check_step>>
Budgets == {<<15, 5>>, <<18, 6>>, <<7, 5>>, <<15, 3>>, <<5, 7>>}

Args ==
  {[G |-> g, analytical |-> a, sigma |-> s, dt |-> d, epsilon |-> ep,
    max_iter |-> b[1], check_step |-> b[2]] :
     g \in Graphs, a \in BOOLEAN, s \in Sigmas, d \in Dts, ep \in Epsilons,
     b \in Budgets}

NoFse == [st |-> "none"]

NoRet == [st |-> "none"]

Init ==
  /\ arg \in Args
  /\ pc = "domirank"
  /\ sigma = arg.sigma
  /\ fse = NoFse
  /\ helper = NoFrame
  /\ loop = NoFrame
  /\ ret = NoRet
  /\ err = "none"
  /\ warned = {}

Raise(e) == pc' = "raised" /\ err' = e

----------------------------------------------------------------------------
(* domirank: the checks before the normalisation.                          *)

\* lines 141-144
NullGraph ==
  /\ pc = "domirank"
  /\ arg.G.n = 0
  /\ Raise("NetworkXPointlessConcept")
  /\ UNCHANGED <<arg, sigma, fse, helper, loop, ret, warned>>

\* IterativeSigmaError without the check of lines 158-161.
IterativeSigmaError_NoUpperCheck(s) ==
  IF FLess(s, FZero) THEN "NetworkXUnfeasible" ELSE "none"

\* lines 154-161: the exception the iterative branch raises for sigma, if any.
IterativeSigmaError(s) ==
  IF FLess(s, FZero) THEN "NetworkXUnfeasible"
  ELSE IF FGreater(s, FOne) THEN "NetworkXUnfeasible"
  ELSE "none"

\* lines 152-161
IterativeChecks ==
  /\ pc = "domirank"
  /\ arg.G.n # 0
  /\ arg.analytical = FALSE
  /\ IF IterativeSigmaError(sigma) # "none"
     THEN Raise(IterativeSigmaError(sigma))
     ELSE pc' = "call_fse" /\ err' = err
  /\ UNCHANGED <<arg, sigma, fse, helper, loop, ret, warned>>

\* lines 209-217: the warnings of the analytical branch.
AnalyticalWarnings(n, s) ==
  (IF n > 5000 THEN {"large"} ELSE {}) \cup
  (IF FGreater(s, FOne) THEN {"supercharged"} ELSE {})

\* lines 218-221: the exception the analytical branch raises for sigma, if any.
AnalyticalSigmaError(s) ==
  IF FLess(s, FZero) THEN "NetworkXUnfeasible" ELSE "none"

\* lines 205-221
AnalyticalChecks ==
  /\ pc = "domirank"
  /\ arg.G.n # 0
  /\ arg.analytical # FALSE
  /\ warned' = warned \cup AnalyticalWarnings(arg.G.n, sigma)
  /\ IF AnalyticalSigmaError(sigma) # "none"
     THEN Raise(AnalyticalSigmaError(sigma))
     ELSE pc' = "call_fse" /\ err' = err
  /\ UNCHANGED <<arg, sigma, fse, helper, loop, ret>>

----------------------------------------------------------------------------
(* _find_smallest_eigenvalue                                               *)

\* lines 166 and 226: maxDepth = int(max_iter / 5)
MaxDepth(max_iter) == max_iter \div 5

\* lines 243-244 and 260-261: the frame when the loop is reached.
FseEnter(G, maxDepth) ==
  [st |-> "loop",
   minVal |-> FZero,
   maxVal |-> FOne,
   maxDepth |-> maxDepth,
   x |-> FDiv(FAdd(FZero, FOne), RowSumMax(G)),
   minValStored |-> FZero,
   i |-> 0]

\* lines 162-171 / 222-231 (the call) and 260-261
CallFse ==
  /\ pc = "call_fse"
  /\ fse' = FseEnter(arg.G, MaxDepth(arg.max_iter))
  /\ pc' = "fse_loop"
  /\ UNCHANGED <<arg, sigma, helper, loop, ret, err, warned>>

\* line 263: the bracket is narrower than epsilon.
Narrow(f, epsilon) == FLess(FSub(f.maxVal, f.minVal), epsilon)

\* lines 262-266: another probe; _domirank is entered (lines 286-291).
FseProbe ==
  /\ pc = "fse_loop"
  /\ fse.i < fse.maxDepth
  /\ ~Narrow(fse, arg.epsilon)
  /\ helper' = HelperEnter(arg.G, fse.x, arg.dt, arg.epsilon, arg.max_iter,
                           arg.check_step)
  /\ pc' = "_domirank"
  /\ UNCHANGED <<arg, sigma, fse, loop, ret, err, warned>>

\* lines 292-304: one body of _domirank's loop.
HelperStep ==
  /\ pc = "_domirank"
  /\ Running(helper, arg.max_iter)
  /\ helper' = HelperBody(helper, arg.check_step)
  /\ IF helper'.st = "IndexError"
     THEN Raise("IndexError")
     ELSE pc' = pc /\ err' = err
  /\ UNCHANGED <<arg, sigma, fse, loop, ret, warned>>

\* lines 268-270: the probe converged.
OnConverged(f) ==
  LET minVal == f.x
  IN  [f EXCEPT !.minVal = minVal,
                !.x = FDiv(FAdd(minVal, f.maxVal), FInt(2)),
                !.minValStored = minVal,
                !.i = f.i + 1]

\* lines 272-273: the probe diverged.
OnDiverged(f) ==
  LET maxVal == FDiv(FAdd(f.x, f.maxVal), FInt(2))
  IN  [f EXCEPT !.maxVal = maxVal,
                !.x = FDiv(FAdd(f.minVal, maxVal), FInt(2)),
                !.i = f.i + 1]

\* lines 305 and 265-270: _domirank returns True.
FseConverged ==
  /\ pc = "_domirank"
  /\ EndedTrue(helper, arg.max_iter)
  /\ fse' = OnConverged(fse)
  /\ pc' = "fse_loop"
  /\ UNCHANGED <<arg, sigma, helper, loop, ret, err, warned>>

\* lines 303 and 271-273: _domirank returns False.
FseDiverged ==
  /\ pc = "_domirank"
  /\ helper.st = "False"
  /\ fse' = OnDiverged(fse)
  /\ pc' = "fse_loop"
  /\ UNCHANGED <<arg, sigma, helper, loop, ret, err, warned>>

\* lines 274-275: the value returned.
FseResult(f) ==
  LET finalVal == FDiv(FAdd(f.maxVal, f.minVal), FInt(2))
  IN  FDiv(FInt(-1), finalVal)

\* lines 262-264 and 274-275: the loop is over; lines 162-172 / 222-232: sigma
\* is normalised.
FseReturn ==
  /\ pc = "fse_loop"
  /\ (fse.i >= fse.maxDepth \/ Narrow(fse, arg.epsilon))
  /\ fse' = [fse EXCEPT !.st = "returned"]
  /\ sigma' = FAbs(FDiv(sigma, FseResult(fse)))
  /\ pc' = IF arg.analytical = FALSE THEN "iterate" ELSE "solve"
  /\ UNCHANGED <<arg, helper, loop, ret, err, warned>>

----------------------------------------------------------------------------
(* domirank: the final loop, or the solve.                                 *)

\* lines 174-184
EnterLoop ==
  /\ pc = "iterate"
  /\ loop' = LoopEnter(arg.G, sigma, arg.dt, arg.epsilon, arg.max_iter,
                       arg.check_step)
  /\ pc' = "loop"
  /\ UNCHANGED <<arg, sigma, fse, helper, ret, err, warned>>

\* lines 185-202: one body of the loop; lines 200-201 return when it diverged.
LoopStep ==
  /\ pc = "loop"
  /\ Running(loop, arg.max_iter)
  /\ loop' = LoopBody(loop, arg.check_step)
  /\ IF loop'.st = "IndexError"
     THEN Raise("IndexError") /\ ret' = ret
     ELSE IF loop'.st = "False"
     THEN /\ ret' = [st |-> "returned", Psi |-> loop'.Psi, sigma |-> sigma,
                     converged |-> FALSE]
          /\ pc' = "done"
          /\ err' = err
     ELSE pc' = pc /\ err' = err /\ ret' = ret
  /\ UNCHANGED <<arg, sigma, fse, helper, warned>>

\* lines 203-204
LoopReturn ==
  /\ pc = "loop"
  /\ EndedTrue(loop, arg.max_iter)
  /\ ret' = [st |-> "returned", Psi |-> loop.Psi, sigma |-> sigma,
             converged |-> TRUE]
  /\ pc' = "done"
  /\ UNCHANGED <<arg, sigma, fse, helper, loop, err, warned>>

\* AnalyticalConverged, negated.
AnalyticalConverged_False == FALSE

\* line 237: the third value the analytical branch returns.
AnalyticalConverged == TRUE

\* lines 233-237: the linear system handed to spsolve stands for its solution.
Solve ==
  /\ pc = "solve"
  /\ LET n == arg.G.n
         sA == Scaled(sigma, arg.G)
         lhs == [p \in (1..n) \X (1..n) |->
                   FAdd(IF p \in DOMAIN sA THEN sA[p] ELSE FZero,
                        IF p[1] = p[2] THEN FOne ELSE FZero)]
         sums == MatVec(arg.G.w, [v \in 1..n |-> FOne])
         rhs == [v \in 1..n |-> FMul(sigma, sums[v])]
     IN  ret' = [st |-> "returned", Psi |-> [spsolve |-> <<lhs, rhs>>],
                 sigma |-> sigma, converged |-> AnalyticalConverged]
  /\ pc' = "done"
  /\ UNCHANGED <<arg, sigma, fse, helper, loop, err, warned>>

Next ==
  \/ NullGraph
  \/ IterativeChecks
  \/ AnalyticalChecks
  \/ CallFse
  \/ FseProbe
  \/ HelperStep
  \/ FseConverged
  \/ FseDiverged
  \/ FseReturn
  \/ EnterLoop
  \/ LoopStep
  \/ LoopReturn
  \/ Solve

Spec == Init /\ [][Next]_vars

----------------------------------------------------------------------------
(* The two copies of the iteration side by side: _domirank's loop and      *)
(* domirank's final loop on the same matrix and the same knobs.            *)

\* The competition weights the two loops are compared at.
Weights == {FZero, Rat(1, 2), Rat(3, 4), FOne, FInt(2)}

EqArgs ==
  {[G |-> g, analytical |-> FALSE, sigma |-> s, dt |-> d, epsilon |-> ep,
    max_iter |-> b[1], check_step |-> b[2]] :
     g \in Graphs \ {EmptyGraph}, s \in Weights, d \in Dts, ep \in Epsilons,
     b \in Budgets}

EqInit ==
  /\ arg \in EqArgs
  /\ pc = "both"
  /\ sigma = arg.sigma
  /\ fse = NoFse
  /\ helper = HelperEnter(arg.G, arg.sigma, arg.dt, arg.epsilon, arg.max_iter,
                          arg.check_step)
  /\ loop = LoopEnter(arg.G, arg.sigma, arg.dt, arg.epsilon, arg.max_iter,
                      arg.check_step)
  /\ ret = NoRet
  /\ err = "none"
  /\ warned = {}

\* Each loop that has not ended runs one body.
EqStep ==
  /\ pc = "both"
  /\ Running(helper, arg.max_iter) \/ Running(loop, arg.max_iter)
  /\ helper' = IF Running(helper, arg.max_iter)
               THEN HelperBody(helper, arg.check_step) ELSE helper
  /\ loop' = IF Running(loop, arg.max_iter)
             THEN LoopBody(loop, arg.check_step) ELSE loop
  /\ UNCHANGED <<arg, pc, sigma, fse, ret, err, warned>>

EqNext == EqStep

EqSpec == EqInit /\ [][EqNext]_vars

----------------------------------------------------------------------------
(* The knobs the specification calls valid.                                *)

ValidBudget == 5 <= arg.check_step /\ arg.check_step <= arg.max_iter

ValidDt == FLess(FZero, arg.dt) /\ ~FLess(FOne, arg.dt)

ValidEpsilon == ~FLess(arg.epsilon, FZero)

ValidKnobs == ValidBudget /\ ValidDt /\ ValidEpsilon

\* A call with valid knobs on a graph whose maximum row sum is at least 1.
PlainCall ==
  ValidKnobs /\ arg.G.n # 0 /\ ~FLess(RowSumMax(arg.G), FOne)

\* Nothing of the computation has happened: _find_smallest_eigenvalue was not
\* called, no matrix was scaled, no loop body ran, nothing was returned.
NoWorkDone ==
  /\ fse = NoFse
  /\ helper = NoFrame
  /\ loop = NoFrame
  /\ ret = NoRet

\* The loop body of index f.i - 1, the last one run, was a sampled one.
LastSampled(f) == f.i > 0 /\ (f.i - 1) % arg.check_step = 0

\* The divergence test of lines 197-198 / 301-302 on buffer mv at index j.
Increasing3(mv, j) ==
  /\ j > 0
  /\ FGreater(PyIndex(mv, j), PyIndex(mv, j - 1))
  /\ FGreater(PyIndex(mv, j - 1), PyIndex(mv, j - 2))

\* sum of |tempVal| < boundary, on the frame's last tempVal.
BelowBoundary(f) ==
  FLess(VecSum([v \in 1..Len(f.tempVal) |-> FAbs(f.tempVal[v])], 1, FZero),
        f.boundary)

----------------------------------------------------------------------------
(* C1 *)

\* C1: a call with check_step < 5, check_step > max_iter, dt outside (0, 1] or
\* epsilon < 0 is rejected before any matrix is scaled, before
\* _find_smallest_eigenvalue is called and before any loop body runs: such a
\* call is either still at its entry or has raised, and no work was done.
C1_BadKnobsRejectedFirst ==
  ~ValidKnobs => (pc \in {"domirank", "raised"} /\ NoWorkDone)

(* C2 *)

NotDivergedAtZero(f) ==
  (f.st # "none" /\ f.sigma = FZero) => f.st # "False"

\* C4: with valid knobs (and a maximum row sum of at least 1), a loop run at
\* competition weight 0 never reports divergence, and the iterative call that
\* ran it returns converged = True.
C4_ZeroWeightConverges ==
  PlainCall =>
    /\ NotDivergedAtZero(helper)
    /\ NotDivergedAtZero(loop)
    /\ (pc = "done" /\ arg.analytical = FALSE /\ loop.sigma = FZero)
         => ret.converged = TRUE

(* C5 *)

\* C5: with a positive maximum row sum (and valid knobs), minVal <= maxVal
\* holds at every point of the bisection, and the bisection returns only with
\* maxVal - minVal < epsilon or after maxDepth probes.
C5_BracketOrdered ==
  (ValidKnobs /\ fse.st # "none" /\ FGreater(RowSumMax(arg.G), FZero)) =>
    /\ ~FLess(fse.maxVal, fse.minVal)
    /\ fse.st = "returned" =>
         (Narrow(fse, arg.epsilon) \/ fse.i = fse.maxDepth)

(* C6 *)

\* C6: when the maximum row sum is 0 (and the knobs are valid), the division
\* of line 260 is not performed, no loop runs at a weight that is not a finite
\* number, and the call does not return a result.
C6_ZeroRowSumGuarded ==
  (ValidKnobs /\ arg.G.n # 0 /\ RowSumMax(arg.G) = FZero) =>
    /\ fse = NoFse
    /\ helper.st # "none" => IsNum(helper.sigma)
    /\ loop.st # "none" => IsNum(loop.sigma)
    /\ pc # "done"

(* C7 *)

\* The last body of frame f reached the write maxVals[j] = ... (line 194 / 298).
ReachedWrite(f) ==
  f.st # "none" /\ LastSampled(f) /\ f.st # "break"

\* The index j that write used.
WriteIndex(f) == IF f.st = "run" THEN f.j - 1 ELSE f.j

\* C7: with 5 <= check_step <= max_iter (dt and epsilon valid, the maximum row
\* sum at least 1), every write maxVals[j] has j strictly below the buffer's
\* capacity.
C7_WriteBelowCapacity ==
  PlainCall =>
    /\ ReachedWrite(helper) => WriteIndex(helper) < Len(helper.maxVals)
    /\ ReachedWrite(loop) => WriteIndex(loop) < Len(loop.maxVals)

(* C8 *)

\* When frame f reports divergence, j + 1 samples have been recorded: at least
\* 3, and the last 3 are strictly increasing.
DivergedOnThree(f) ==
  f.st = "False" =>
    /\ f.j + 1 >= 3
    /\ FGreater(f.maxVals[f.j + 1], f.maxVals[f.j])
    /\ FGreater(f.maxVals[f.j], f.maxVals[f.j - 1])

\* C8: divergence is reported only when at least 3 samples have been recorded
\* in the call and the 3 most recent are strictly increasing (stated for calls
\* with valid knobs and a maximum row sum of at least 1).
C8_DivergenceNeedsThreeSamples ==
  PlainCall => (DivergedOnThree(helper) /\ DivergedOnThree(loop))

(* C9 *)

\* The loop of frame f, as C9 describes it.
IteratorContract(f) ==
  f.st # "none" =>
    /\ f.i <= arg.max_iter
    /\ f.st = "run" \/ LastSampled(f)
    \* False: the divergence test fired on the sample just recorded
    /\ f.st = "False" =>
         /\ ~BelowBoundary(f)
         /\ f.maxVals[f.j + 1] = VecMax(f.tempVal, 2, f.tempVal[1])
         /\ Increasing3(f.maxVals, f.j)
    \* the loop went on after a sampled body: neither test fired, and the
    \* sample was recorded
    /\ (f.st = "run" /\ LastSampled(f)) =>
         /\ ~BelowBoundary(f)
         /\ f.j = (f.i - 1) \div arg.check_step + 1
         /\ f.maxVals[f.j] = VecMax(f.tempVal, 2, f.tempVal[1])
         /\ ~Increasing3(f.maxVals, f.j - 1)
    \* break: the convergence test held, and no sample was recorded
    /\ f.st = "break" =>
         /\ BelowBoundary(f)
         /\ f.j = (f.i - 1) \div arg.check_step
         /\ f.j < Len(f.maxVals) => f.maxVals[f.j + 1] = FZero

\* C9: each loop runs at most max_iter bodies; it reports False exactly when
\* the divergence test fired at a sampled body; when the convergence test
\* holds at a sampled body it stops with True and records no sample; when the
\* indices run out it reports True.
C9_IteratorOutcome ==
  /\ IteratorContract(helper)
  /\ IteratorContract(loop)
  /\ (pc = "done" /\ arg.analytical = FALSE) =>
       /\ ret.converged = (loop.st # "False")
       /\ loop.st \in {"False", "break"} \/ loop.i = arg.max_iter
  /\ (pc = "fse_loop" /\ helper.st \in {"run", "break"}) =>
       /\ helper.st = "break" \/ helper.i = arg.max_iter
       /\ fse.minVal = helper.sigma

\* The final loop stopped on the convergence test at a sampled body after
\* recording samples at earlier ones, and the call returned True.
C9_Witness ==
  /\ PlainCall
  /\ pc = "done"
  /\ loop.st = "break"
  /\ loop.j >= 2
  /\ ret.converged = TRUE

(* C10 *)

\* C10: run on the same matrix, weight and knobs, _domirank's loop and
\* domirank's final loop are in the same state after every body (Psi, j,
\* maxVals and all other locals), end at the same body, and give the same
\* converged flag.
C10_LoopsAgree ==
  pc = "both" =>
    /\ helper = loop
    /\ EndedTrue(helper, arg.max_iter) = EndedTrue(loop, arg.max_iter)
    /\ Running(helper, arg.max_iter) = Running(loop, arg.max_iter)

\* Both loops have reported divergence, at the same body.
C10_Witness ==
  /\ PlainCall
  /\ pc = "both"
  /\ helper.st = "False"
  /\ loop.st = "False"
  /\ helper.i = loop.i
  /\ helper.i > 1

====
